---- MODULE Spec2Model ----
(***************************************************************************)
(* go-raph: the dependency-graph construction of main.go (analyzeProject,  *)
(* addNode, addEdge) as a state machine.                                   *)
(*                                                                         *)
(* Strings are tuples of one-character strings, so that HasPrefix,         *)
(* Contains, Split and concatenation are computed character by character   *)
(* as the Go code computes them.  A project is a manifest (go.mod) and the *)
(* sequence of entries filepath.Walk hands to the walk callback.  Go map   *)
(* iteration order is unspecified: every `range` over a map is modelled as *)
(* a choice over all enumeration orders.                                   *)
(***************************************************************************)
EXTENDS Naturals, Sequences, FiniteSets, TLC

VARIABLES manifest, tree, pc, mainModule, availableModules, directModules,
          usedModules, moduleToImporter, graph, nodeMap, walkIdx, err,
          repairTodo, prev, osArgs, flagArgs, targetPath, port, mainPc

\* the state of main: the command line, flag.Args(), the two flag values and
\* the position in main
cli == <<osArgs, flagArgs, targetPath, port, mainPc>>

vars == <<manifest, tree, pc, mainModule, availableModules, directModules,
          usedModules, moduleToImporter, graph, nodeMap, walkIdx, err,
          repairTodo, prev, cli>>

(***************************************************************************)
(* Bounds.                                                                 *)
(***************************************************************************)
\* size of a project tree: walk entries plus import declarations
MaxTree == 3
\* size of a project tree analysed on more than one connection
MaxRerunTree == 4
\* number of command-line arguments
MaxArgs == 3

(***************************************************************************)
(* package strings                                                         *)
(***************************************************************************)
HasPrefix(s, prefix) ==
    /\ Len(prefix) <= Len(s)
    /\ SubSeq(s, 1, Len(prefix)) = prefix

HasSuffix(s, suffix) ==
    /\ Len(suffix) <= Len(s)
    /\ SubSeq(s, Len(s) - Len(suffix) + 1, Len(s)) = suffix

Contains(s, substr) ==
    \E i \in 1..(Len(s) + 1) :
        /\ i + Len(substr) - 1 <= Len(s)
        /\ SubSeq(s, i, i + Len(substr) - 1) = substr

TrimPrefix(s, prefix) ==
    IF HasPrefix(s, prefix) THEN SubSeq(s, Len(prefix) + 1, Len(s)) ELSE s

\* strings.Split(s, "/")[0]: the text before the first "/", all of s if none
FirstSegment(s) ==
    IF \E i \in 1..Len(s) : s[i] = "/"
    THEN LET i == CHOOSE j \in 1..Len(s) :
                      s[j] = "/" /\ \A k \in 1..(j - 1) : s[k] # "/"
         IN SubSeq(s, 1, i - 1)
    ELSE s

\* filepath.Dir on a cleaned slash path: the text before the last "/",
\* "." when the path has no "/"
Dir(path) ==
    IF \E i \in 1..Len(path) : path[i] = "/"
    THEN LET i == CHOOSE j \in 1..Len(path) :
                      path[j] = "/" /\ \A k \in (j + 1)..Len(path) : path[k] # "/"
         IN IF i = 1 THEN <<"/">> ELSE SubSeq(path, 1, i - 1)
    ELSE <<".">>

\* the text between the "/" of s
RECURSIVE SplitSlash(_)
SplitSlash(s) ==
    IF \E i \in 1..Len(s) : s[i] = "/"
    THEN <<FirstSegment(s)>> \o SplitSlash(SubSeq(s, Len(FirstSegment(s)) + 2, Len(s)))
    ELSE <<s>>

RECURSIVE JoinSlash(_)
JoinSlash(segments) ==
    IF segments = <<>> THEN <<>>
    ELSE IF Len(segments) = 1 THEN segments[1]
    ELSE segments[1] \o <<"/">> \o JoinSlash(Tail(segments))

\* filepath.Clean of a path without ".." elements: empty and "." elements
\* are dropped, a leading "/" is kept, the empty result is "."
Clean(path) ==
    LET Kept(seg) == seg # <<>> /\ seg # <<".">>
        joined == JoinSlash(SelectSeq(SplitSlash(path), Kept))
    IN IF Len(path) > 0 /\ path[1] = "/" THEN <<"/">> \o joined
       ELSE IF joined = <<>> THEN <<".">>
       ELSE joined

\* filepath.Join(dir, name), by which Walk names what it finds
Join(dir, name) ==
    IF name = <<>> THEN Clean(dir)
    ELSE IF dir = <<>> THEN Clean(name)
    ELSE Clean(dir \o <<"/">> \o name)

(***************************************************************************)
(* String literals of main.go                                              *)
(***************************************************************************)
Dot == <<".">>
Slash == <<"/">>
GoSuffix == <<".", "g", "o">>
VendorDir == <<"v", "e", "n", "d", "o", "r", "/">>
RootName == <<"r", "o", "o", "t">>
PkgPrefix == <<"p", "k", "g", ":">>
ImportPrefix == <<"i", "m", "p", "o", "r", "t", ":">>
EmptyString == <<>>

(***************************************************************************)
(* The projects analysed: module paths, import paths, walk entries.        *)
(***************************************************************************)
DefaultPath == <<".">>
DefaultPort == <<"8", "0", "8", "0">>
FallbackPort == <<"8", "0", "8", "4">>

\* line 95: analyzeProject(targetPath)
ProjectPath == targetPath

MainPath == <<"m", ".", "c", "/", "p">>
ModX == <<"a", ".", "b", "/", "x">>
ModXY == <<"a", ".", "b", "/", "x", "/", "y">>
ModS == <<"s", ".", "a", ".", "b", "/", "y">>
ModZ == <<"z", ".", "b", "/", "o">>

ModuleUniverse == {ModX, ModXY, ModS, ModZ}

ImportUniverse ==
    { <<"f">>,
      <<"f", "/", "g", ".", "h">>,
      MainPath \o <<"/", "u">>,
      ModX,
      ModXY \o <<"/", "z">>,
      ModS,
      ModZ \o <<"/", "q">> }

\* a go.mod: ok = FALSE when the file is missing or does not parse; require
\* maps each required module path to its "// indirect" mark
Manifests ==
    { [ok |-> FALSE, module |-> EmptyString, require |-> <<>>] }
    \cup { [ok |-> TRUE, module |-> MainPath, require |-> r] :
             r \in UNION { [S -> BOOLEAN] : S \in SUBSET ModuleUniverse } }

ImportLists(n) == UNION { [1..k -> ImportUniverse] : k \in 0..n }

FileA == <<"a", ".", "g", "o">>
FileSA == <<"s", "/", "a", ".", "g", "o">>
FileVendor == VendorDir \o FileA
DirS == <<"s">>

\* project roots other than ".": a relative and an absolute directory
RelPath == <<"q">>
AbsPath == <<"/", "p">>
Roots == { DefaultPath, RelPath, AbsPath, <<".", "/">> \o RelPath }

\* the paths below the root that Walk visits
WalkPaths == { EmptyString, FileA, FileSA, FileVendor, DirS }

\* filepath.Join(root, name), tabulated for the roots and names above
Joined == [root \in Roots |-> [name \in WalkPaths |-> Join(root, name)]]

\* one call of the walk callback: the path below the project root, whether
\* Walk reports an error for it, whether the file parses, and its import
\* declarations
Entry(path, e, parses, imports) ==
    [path |-> path, err |-> e, parses |-> parses, imports |-> imports]

\* the root itself (the empty path below the root), unreadable
RootError == Entry(EmptyString, TRUE, FALSE, <<>>)

Entries(n) ==
    { Entry(p, FALSE, TRUE, l) : p \in {FileA, FileSA}, l \in ImportLists(n) }
    \cup { Entry(FileA, FALSE, FALSE, <<>>),
           Entry(DirS, TRUE, FALSE, <<>>),
           Entry(DirS, FALSE, FALSE, <<>>),
           Entry(FileVendor, FALSE, FALSE, <<>>) }

Weight(e) == 1 + Len(e.imports)

RECURSIVE Trees(_)
Trees(w) ==
    IF w = 0 THEN { <<>> }
    ELSE { <<>> } \cup
         UNION { { <<e>> \o t : t \in Trees(w - Weight(e)) } :
                 e \in Entries(w - 1) }

\* when the root itself cannot be read, Walk calls the callback once, with
\* the root and the error
ProjectTrees == Trees(MaxTree) \cup { <<RootError>> }

(***************************************************************************)
(* addNode, addEdge                                                        *)
(***************************************************************************)
Node(id, nodeType, depth) == [ID |-> id, Type |-> nodeType, Depth |-> depth]
Edge(source, target) == [Source |-> source, Target |-> target]

\* addNode without the lookup in nodeMap
addNodeUnchecked(g, nm, id, nodeType, depth) ==
    << [g EXCEPT !.Nodes = Append(@, Node(id, nodeType, depth))], nm \cup {id} >>

\* the pair <<graph, nodeMap>> after addNode
addNode(g, nm, id, nodeType, depth) ==
    IF id \in nm THEN <<g, nm>>
    ELSE << [g EXCEPT !.Nodes = Append(@, Node(id, nodeType, depth))],
            nm \cup {id} >>

\* addEdge comparing only the source of an existing edge
addEdgeSourceOnly(g, source, target) ==
    IF \E i \in 1..Len(g.Edges) : g.Edges[i].Source = source
    THEN g
    ELSE [g EXCEPT !.Edges = Append(@, Edge(source, target))]

addEdge(g, source, target) ==
    IF \E i \in 1..Len(g.Edges) :
           g.Edges[i].Source = source /\ g.Edges[i].Target = target
    THEN g
    ELSE [g EXCEPT !.Edges = Append(@, Edge(source, target))]

\* graph.Nodes = append(graph.Nodes[:i], graph.Nodes[i+1:]...) for the first
\* i with Nodes[i].ID = id
removeNode(g, id) ==
    IF \E i \in 1..Len(g.Nodes) : g.Nodes[i].ID = id
    THEN LET i == CHOOSE j \in 1..Len(g.Nodes) :
                      /\ g.Nodes[j].ID = id
                      /\ \A k \in 1..(j - 1) : g.Nodes[k].ID # id
         IN [g EXCEPT !.Nodes = SubSeq(@, 1, i - 1) \o SubSeq(@, i + 1, Len(@))]
    ELSE g

NodeIDs(g) == { g.Nodes[i].ID : i \in 1..Len(g.Nodes) }
EdgePairs(g) == { <<g.Edges[i].Source, g.Edges[i].Target>> : i \in 1..Len(g.Edges) }

(***************************************************************************)
(* analyzeProject: state                                                   *)
(***************************************************************************)
EmptyGraph == [Nodes |-> <<>>, Edges |-> <<>>]

\* main has parsed an empty command line and serves the default path
Serving ==
    /\ osArgs = <<>>
    /\ flagArgs = <<>>
    /\ targetPath = DefaultPath
    /\ port = DefaultPort
    /\ mainPc = "serving"

Init ==
    /\ manifest \in Manifests
    /\ tree \in ProjectTrees
    /\ pc = "manifest"
    /\ mainModule = EmptyString
    /\ availableModules = {}
    /\ directModules = <<>>
    /\ usedModules = {}
    /\ moduleToImporter = <<>>
    /\ graph = EmptyGraph
    /\ nodeMap = {}
    /\ walkIdx = 1
    /\ err = "nil"
    /\ repairTodo = {}
    /\ prev = <<>>
    /\ Serving

\* directModules[m] of a Go map: false for a key that is not in the map
IsDirect(dm, m) == m \in DOMAIN dm /\ dm[m]

\* lines 118-137
ReadManifest ==
    /\ pc = "manifest"
    /\ pc' = "walk"
    /\ IF manifest.ok
       THEN LET added == addNode(graph, nodeMap, manifest.module, "main", 0)
            IN /\ mainModule' = manifest.module
               /\ graph' = added[1]
               /\ nodeMap' = added[2]
               /\ availableModules' = DOMAIN manifest.require
               /\ directModules' = [m \in DOMAIN manifest.require |->
                                       ~manifest.require[m]]
       ELSE UNCHANGED <<mainModule, graph, nodeMap, availableModules,
                        directModules>>
    /\ UNCHANGED <<manifest, tree, usedModules, moduleToImporter, walkIdx,
                   err, repairTodo, prev, cli>>

\* the iteration without the comparison of lengths: the last prefix wins
MatchStepAnyPrefix(acc, importPath, modulePath) ==
    IF HasPrefix(importPath, modulePath)
    THEN [rootModule |-> modulePath, maxLength |-> Len(modulePath)]
    ELSE acc

\* lines 182-189: one iteration of the range over availableModules
MatchStep(acc, importPath, modulePath) ==
    IF HasPrefix(importPath, modulePath) /\ Len(modulePath) > acc.maxLength
    THEN [rootModule |-> modulePath, maxLength |-> Len(modulePath)]
    ELSE acc

\* lines 182-189: the values rootModule can have after the loop, over every
\* order in which the map availableModules can be enumerated
RECURSIVE RangeMatch(_, _, _)
RangeMatch(todo, acc, importPath) ==
    IF todo = {} THEN { acc.rootModule }
    ELSE UNION { RangeMatch(todo \ {m}, MatchStep(acc, importPath, m), importPath) :
                 m \in todo }

RootModules(avail, importPath) ==
    RangeMatch(avail, [rootModule |-> EmptyString, maxLength |-> 0], importPath)

\* the locals of analyzeProject the import loop writes
Locals(g, nm, used, m2i) == [g |-> g, nm |-> nm, used |-> used, m2i |-> m2i]

AppendImporter(m2i, m, packageID) ==
    IF m \in DOMAIN m2i
    THEN [m2i EXCEPT ![m] = Append(@, packageID)]
    ELSE (m :> <<packageID>>) @@ m2i

\* the external import without the edge from the import node to its module
ExternalNoModuleEdge(st, packageID, importPath, rootModule) ==
    IF rootModule = EmptyString THEN st
    ELSE LET used == st.used \cup {rootModule}
             a1 == addNode(st.g, st.nm, rootModule, "external", 2)
             m2i == AppendImporter(st.m2i, rootModule, packageID)
         IN IF importPath = rootModule
            THEN Locals(addEdge(a1[1], packageID, rootModule), a1[2], used, m2i)
            ELSE LET importID == ImportPrefix \o importPath
                     a2 == addNode(a1[1], a1[2], importID, "external", 1)
                 IN Locals(addEdge(a2[1], packageID, importID), a2[2], used, m2i)

\* lines 191-223: an external import whose owning module is rootModule
External(st, packageID, importPath, rootModule) ==
    IF rootModule = EmptyString THEN st
    ELSE LET used == st.used \cup {rootModule}
             a1 == addNode(st.g, st.nm, rootModule, "external", 2)
             m2i == AppendImporter(st.m2i, rootModule, packageID)
         IN IF importPath = rootModule
            THEN Locals(addEdge(a1[1], packageID, rootModule), a1[2], used, m2i)
            ELSE LET importID == ImportPrefix \o importPath
                     a2 == addNode(a1[1], a1[2], importID, "external", 1)
                     g2 == addEdge(a2[1], packageID, importID)
                 IN Locals(addEdge(g2, importID, rootModule), a2[2], used, m2i)

\* lines 168-224: the body of the loop over file.Imports, for one import; the
\* set of outcomes over the enumeration orders of availableModules
Import(st, main, avail, packageID, importPath) ==
    IF ~Contains(importPath, Dot) THEN { st }
    ELSE IF HasPrefix(importPath, main)
    THEN LET importID == ImportPrefix \o importPath
             a == addNode(st.g, st.nm, importID, "internal", 0)
         IN { Locals(addEdge(a[1], packageID, importID), a[2], st.used, st.m2i) }
    ELSE { External(st, packageID, importPath, r) :
           r \in RootModules(avail, importPath) }

\* lines 167-225
RECURSIVE Imports(_, _, _, _, _)
Imports(st, main, avail, packageID, imports) ==
    IF imports = <<>> THEN { st }
    ELSE UNION { Imports(st2, main, avail, packageID, Tail(imports)) :
                 st2 \in Import(st, main, avail, packageID, Head(imports)) }

\* lines 153-158, for the file at path in the project at projectPath
packageIDIn(projectPath, path) ==
    LET relPath == TrimPrefix(Dir(path), projectPath \o Slash)
    IN PkgPrefix \o (IF relPath = Dot \/ relPath = EmptyString
                     THEN RootName ELSE relPath)

\* packageIDIn, tabulated for the roots and the paths Walk hands out
PackageIDs ==
    [root \in Roots |->
        [path \in { Joined[root][name] : name \in WalkPaths } |->
            packageIDIn(root, path)]]

PackageID(path) == PackageIDs[ProjectPath][path]

\* line 140: the i-th entry as the callback receives it, its path joined to
\* the project root by Walk
Walked(i) == [tree[i] EXCEPT !.path = Joined[ProjectPath][@]]

\* line 142-143: the callback returns before parsing
notSource(path) == ~HasSuffix(path, GoSuffix) \/ Contains(path, VendorDir)

\* notSource, tabulated for the roots and the paths Walk hands out
NotSource ==
    [root \in Roots |->
        { path \in { Joined[root][name] : name \in WalkPaths } : notSource(path) }]

Skipped(e) == e.err \/ e.path \in NotSource[ProjectPath]

\* lines 140-228: one call of the walk callback, and what Walk does with the
\* value it returns.  Walk stops and returns the callback's error as soon as
\* the callback returns one; it returns nil after the callback has returned
\* nil for the last entry.
WalkFn ==
    /\ pc = "walk"
    /\ walkIdx <= Len(tree)
    /\ LET e == Walked(walkIdx)
           returns == e.err \/ walkIdx = Len(tree)
       IN /\ IF Skipped(e) \/ ~e.parses
             THEN /\ err' = IF e.err THEN "error" ELSE "nil"
                  /\ UNCHANGED <<graph, nodeMap, usedModules, moduleToImporter>>
             ELSE LET packageID == PackageID(e.path)
                      a == addNode(graph, nodeMap, packageID, "package", 0)
                      st0 == Locals(a[1], a[2], usedModules, moduleToImporter)
                  IN /\ \E st \in Imports(st0, mainModule, availableModules,
                                          packageID, e.imports) :
                           /\ graph' = st.g
                           /\ nodeMap' = st.nm
                           /\ usedModules' = st.used
                           /\ moduleToImporter' = st.m2i
                     /\ err' = "nil"
          /\ pc' = IF returns THEN "repair" ELSE "walk"
          /\ repairTodo' = IF returns THEN usedModules' ELSE {}
    /\ walkIdx' = walkIdx + 1
    /\ UNCHANGED <<manifest, tree, mainModule, availableModules, directModules,
                   prev, cli>>

\* lines 140, 228: Walk over a root with nothing below it returns nil
WalkEmpty ==
    /\ pc = "walk"
    /\ tree = <<>>
    /\ pc' = "repair"
    /\ repairTodo' = usedModules
    /\ UNCHANGED <<manifest, tree, mainModule, availableModules, directModules,
                   usedModules, moduleToImporter, graph, nodeMap, walkIdx, err,
                   prev, cli>>

\* the inner loop matching on the whole path of the direct module
ParentsWholePath(dm, used, modulePath) ==
    { directModule \in DOMAIN dm :
        /\ dm[directModule] /\ directModule \in used
        /\ \/ HasPrefix(modulePath, directModule)
           \/ Contains(modulePath, directModule) }

\* the inner loop without the test that the direct module is used
ParentsUnused(dm, used, modulePath) ==
    { directModule \in DOMAIN dm :
        /\ dm[directModule]
        /\ \/ HasPrefix(modulePath, FirstSegment(directModule))
           \/ Contains(modulePath, FirstSegment(directModule)) }

\* lines 238-248: the direct, used modules the inner loop can stop at
Parents(dm, used, modulePath) ==
    { directModule \in DOMAIN dm :
        /\ dm[directModule] /\ directModule \in used
        /\ \/ HasPrefix(modulePath, FirstSegment(directModule))
           \/ Contains(modulePath, FirstSegment(directModule)) }

\* lines 231-262: one iteration of the range over usedModules.  The inner
\* range over directModules breaks at the first match, which under an
\* unspecified enumeration order is any of the matching modules.
Repair ==
    /\ pc = "repair"
    /\ \E modulePath \in repairTodo :
        /\ repairTodo' = repairTodo \ {modulePath}
        /\ IF IsDirect(directModules, modulePath)
           THEN /\ graph' = addEdge(graph, mainModule, modulePath)
                /\ UNCHANGED nodeMap
           ELSE IF Parents(directModules, usedModules, modulePath) # {}
           THEN /\ \E directModule \in Parents(directModules, usedModules, modulePath) :
                      graph' = addEdge(graph, directModule, modulePath)
                /\ UNCHANGED nodeMap
           ELSE /\ graph' = removeNode(graph, modulePath)
                /\ nodeMap' = IF modulePath \in NodeIDs(graph)
                              THEN nodeMap \ {modulePath} ELSE nodeMap
    /\ UNCHANGED <<manifest, tree, pc, mainModule, availableModules,
                   directModules, usedModules, moduleToImporter, walkIdx, err,
                   prev, cli>>

\* line 264
Return ==
    /\ pc = "repair"
    /\ repairTodo = {}
    /\ pc' = "done"
    /\ UNCHANGED <<manifest, tree, mainModule, availableModules, directModules,
                   usedModules, moduleToImporter, graph, nodeMap, walkIdx, err,
                   repairTodo, prev, cli>>

Next == ReadManifest \/ WalkFn \/ WalkEmpty \/ Repair \/ Return

Spec == Init /\ [][Next]_vars

(***************************************************************************)
(* websocketHandler: every connection runs analyzeProject(targetPath)      *)
(* again, on fresh locals.  prev is empty on the first connection and then  *)
(* holds what the previous connection was answered; two connections are    *)
(* followed.                                                               *)
(***************************************************************************)
\* lines 87-101
Reconnect ==
    /\ pc = "done"
    /\ prev = <<>>
    /\ prev' = << [nodes |-> NodeIDs(graph), edges |-> EdgePairs(graph),
                    err |-> err] >>
    /\ pc' = "manifest"
    /\ mainModule' = EmptyString
    /\ availableModules' = {}
    /\ directModules' = <<>>
    /\ usedModules' = {}
    /\ moduleToImporter' = <<>>
    /\ graph' = EmptyGraph
    /\ nodeMap' = {}
    /\ walkIdx' = 1
    /\ err' = "nil"
    /\ repairTodo' = {}
    /\ UNCHANGED <<manifest, tree, cli>>

\* the manifests requiring every module of the universe, and the missing one
RerunManifests == { m \in Manifests : ~m.ok \/ DOMAIN m.require = ModuleUniverse }

InitRerun ==
    /\ manifest \in RerunManifests
    /\ tree \in Trees(MaxRerunTree) \cup { <<RootError>> }
    /\ pc = "manifest"
    /\ mainModule = EmptyString
    /\ availableModules = {}
    /\ directModules = <<>>
    /\ usedModules = {}
    /\ moduleToImporter = <<>>
    /\ graph = EmptyGraph
    /\ nodeMap = {}
    /\ walkIdx = 1
    /\ err = "nil"
    /\ repairTodo = {}
    /\ prev = <<>>
    /\ Serving

NextRerun == ReadManifest \/ WalkFn \/ WalkEmpty \/ Repair \/ Return \/ Reconnect

SpecRerun == InitRerun /\ [][NextRerun]_vars

(***************************************************************************)
(* main: the command line.  flag.Parse is the standard library's: it       *)
(* consumes "-name value", "-name=value" (one or two dashes) up to the     *)
(* first argument that is no flag or to "--", and exits with status 2 on   *)
(* an undefined flag or a missing value (flag.ExitOnError).                *)
(***************************************************************************)
MaxPort == 65535

PathName == <<"p", "a", "t", "h">>
PortName == <<"p", "o", "r", "t">>
PathFlag == <<"-">> \o PathName
PortFlag == <<"-">> \o PortName
DashDash == <<"-", "-">>

ArgUniverse ==
    { PathFlag, PortFlag, DashDash, PathFlag \o <<"=">> \o RelPath, <<"-", "x">>,
      AbsPath, RelPath, EmptyString, <<"9">>, <<"0">> }

ArgLists(n) == UNION { [1..k -> ArgUniverse] : k \in 0..n }

Digits ==
    "0" :> 0 @@ "1" :> 1 @@ "2" :> 2 @@ "3" :> 3 @@ "4" :> 4 @@
    "5" :> 5 @@ "6" :> 6 @@ "7" :> 7 @@ "8" :> 8 @@ "9" :> 9

RECURSIVE DecimalValue(_)
DecimalValue(s) ==
    IF s = <<>> THEN 0
    ELSE 10 * DecimalValue(SubSeq(s, 1, Len(s) - 1)) + Digits[s[Len(s)]]

\* line 63: strconv.Atoi succeeds and the number is in 1..65535; a text with
\* a "-" sign is either no number or a number below 1
PortValid(s) ==
    LET body == IF Len(s) > 0 /\ s[1] = "+" THEN Tail(s) ELSE s
    IN /\ Len(body) > 0
       /\ \A i \in 1..Len(body) : body[i] \in DOMAIN Digits
       /\ DecimalValue(body) >= 1
       /\ DecimalValue(body) <= MaxPort

FlagState(args, path, prt, status) ==
    [args |-> args, path |-> path, port |-> prt, status |-> status]

\* line 48: flag.Parse() over the flags "path" and "port" of lines 46-47
RECURSIVE parseFlags(_)
parseFlags(st) ==
    IF st.args = <<>> THEN st
    ELSE LET s == Head(st.args)
         IN IF Len(s) < 2 \/ s[1] # "-" THEN st
            ELSE IF s = DashDash THEN [st EXCEPT !.args = Tail(@)]
            ELSE LET numMinuses == IF s[2] = "-" THEN 2 ELSE 1
                     name == SubSeq(s, numMinuses + 1, Len(s))
                     eqs == { i \in 2..Len(name) : name[i] = "=" }
                     hasValue == eqs # {}
                     eq == CHOOSE i \in eqs : \A j \in eqs : i <= j
                     flagName == IF hasValue THEN SubSeq(name, 1, eq - 1) ELSE name
                     rest == Tail(st.args)
                 IN IF Len(name) = 0 \/ name[1] \in {"-", "="}
                    THEN [st EXCEPT !.status = "error"]
                    ELSE IF flagName \notin {PathName, PortName}
                    THEN [st EXCEPT !.status = "error"]
                    ELSE IF ~hasValue /\ rest = <<>>
                    THEN [st EXCEPT !.status = "error"]
                    ELSE LET value == IF hasValue
                                      THEN SubSeq(name, eq + 1, Len(name))
                                      ELSE Head(rest)
                             left == IF hasValue THEN rest ELSE Tail(rest)
                         IN parseFlags(
                              IF flagName = PathName
                              THEN [st EXCEPT !.args = left, !.path = value]
                              ELSE [st EXCEPT !.args = left, !.port = value])

\* lines 46-48
ParseCommandLine ==
    /\ mainPc = "parse"
    /\ LET st == parseFlags(FlagState(osArgs, DefaultPath, DefaultPort, "ok"))
       IN /\ flagArgs' = st.args
          /\ targetPath' = st.path
          /\ port' = st.port
          /\ mainPc' = IF st.status = "ok" THEN "args" ELSE "exit2"
    /\ UNCHANGED <<manifest, tree, pc, mainModule, availableModules,
                   directModules, usedModules, moduleToImporter, graph, nodeMap,
                   walkIdx, err, repairTodo, prev, osArgs>>

\* a positional argument used only when no -path flag was given
positionalUnlessFlag(path, args) ==
    IF Len(args) > 0 /\ path = DefaultPath THEN args[1] ELSE path

\* lines 51-54
positional(path, args) == IF Len(args) > 0 THEN args[1] ELSE path

UsePositional ==
    /\ mainPc = "args"
    /\ targetPath' = positional(targetPath, flagArgs)
    /\ mainPc' = "empty"
    /\ UNCHANGED <<manifest, tree, pc, mainModule, availableModules,
                   directModules, usedModules, moduleToImporter, graph, nodeMap,
                   walkIdx, err, repairTodo, prev, osArgs, flagArgs, port>>

\* lines 57-60
FixEmptyPath ==
    /\ mainPc = "empty"
    /\ targetPath' = IF targetPath = EmptyString THEN DefaultPath ELSE targetPath
    /\ mainPc' = "port"
    /\ UNCHANGED <<manifest, tree, pc, mainModule, availableModules,
                   directModules, usedModules, moduleToImporter, graph, nodeMap,
                   walkIdx, err, repairTodo, prev, osArgs, flagArgs, port>>

\* lines 63-66
ValidatePort ==
    /\ mainPc = "port"
    /\ port' = IF PortValid(port) THEN port ELSE FallbackPort
    /\ mainPc' = "stat"
    /\ UNCHANGED <<manifest, tree, pc, mainModule, availableModules,
                   directModules, usedModules, moduleToImporter, graph, nodeMap,
                   walkIdx, err, repairTodo, prev, osArgs, flagArgs, targetPath>>

\* lines 69-80: the target path exists and main serves, or main exits with
\* status 1
StatTarget ==
    /\ mainPc = "stat"
    /\ \E exists \in BOOLEAN : mainPc' = IF exists THEN "serving" ELSE "exit1"
    /\ UNCHANGED <<manifest, tree, pc, mainModule, availableModules,
                   directModules, usedModules, moduleToImporter, graph, nodeMap,
                   walkIdx, err, repairTodo, prev, osArgs, flagArgs, targetPath,
                   port>>

\* main starts on a command line; no connection has been made
InitMain ==
    /\ osArgs \in ArgLists(MaxArgs)
    /\ flagArgs = <<>>
    /\ targetPath = DefaultPath
    /\ port = DefaultPort
    /\ mainPc = "parse"
    /\ manifest = [ok |-> FALSE, module |-> EmptyString, require |-> <<>>]
    /\ tree = <<>>
    /\ pc = "idle"
    /\ mainModule = EmptyString
    /\ availableModules = {}
    /\ directModules = <<>>
    /\ usedModules = {}
    /\ moduleToImporter = <<>>
    /\ graph = EmptyGraph
    /\ nodeMap = {}
    /\ walkIdx = 1
    /\ err = "nil"
    /\ repairTodo = {}
    /\ prev = <<>>

NextMain ==
    ParseCommandLine \/ UsePositional \/ FixEmptyPath \/ ValidatePort \/ StatTarget

SpecMain == InitMain /\ [][NextMain]_vars

(***************************************************************************)
(* Other project roots: main was started as "go-raph <path>" and serves    *)
(* that path.                                                              *)
(***************************************************************************)
InitRoots ==
    /\ targetPath \in Roots
    /\ osArgs = <<targetPath>>
    /\ flagArgs = <<targetPath>>
    /\ port = DefaultPort
    /\ mainPc = "serving"
    /\ manifest \in RerunManifests
    /\ tree \in ProjectTrees
    /\ pc = "manifest"
    /\ mainModule = EmptyString
    /\ availableModules = {}
    /\ directModules = <<>>
    /\ usedModules = {}
    /\ moduleToImporter = <<>>
    /\ graph = EmptyGraph
    /\ nodeMap = {}
    /\ walkIdx = 1
    /\ err = "nil"
    /\ repairTodo = {}
    /\ prev = <<>>

SpecRoots == InitRoots /\ [][Next]_vars

(***************************************************************************)
(* Vocabulary of the properties, in terms of the project analysed.         *)
(***************************************************************************)
Declared == IF manifest.ok THEN DOMAIN manifest.require ELSE {}
DeclaredDirect == { m \in Declared : ~manifest.require[m] }
DeclaredIndirect == { m \in Declared : manifest.require[m] }

\* the import declarations the walk callback has iterated over so far
ScannedImports ==
    UNION { { tree[i].imports[j] : j \in 1..Len(tree[i].imports) } :
            i \in { k \in 1..(walkIdx - 1) :
                      k <= Len(tree) /\ tree[k].parses /\ ~Skipped(Walked(k)) } }

\* the import declarations of the file the walk callback is called with next
NextImports ==
    IF pc = "walk" /\ walkIdx <= Len(tree)
    THEN { tree[walkIdx].imports[j] : j \in 1..Len(tree[walkIdx].imports) }
    ELSE {}

IsStdlib(p) == ~Contains(FirstSegment(p), Dot)
IsInternal(p) == manifest.ok /\ HasPrefix(p, manifest.module)

LongestPrefixIn(modules, m, p) ==
    /\ m \in modules
    /\ HasPrefix(p, m)
    /\ \A k \in modules : HasPrefix(p, k) => Len(k) <= Len(m)

LongestDeclaredPrefix(m, p) == LongestPrefixIn(Declared, m, p)

\* some scanned external import is owned by m
ResolvedTo(m) ==
    \E p \in ScannedImports :
        LongestDeclaredPrefix(m, p) /\ ~IsStdlib(p) /\ ~IsInternal(p)

Final == pc = "done"

Touches(id) ==
    \E i \in 1..Len(graph.Edges) :
        graph.Edges[i].Source = id \/ graph.Edges[i].Target = id

RepairRemoved == \E m \in usedModules : m \notin NodeIDs(graph)

(***************************************************************************)
(* C1: in every graph reachable during and after analyzeProject, no two    *)
(* nodes share an id and no two edges share an ordered (source, target)    *)
(* pair.                                                                   *)
(***************************************************************************)
C1_Unique ==
    /\ \A i, j \in 1..Len(graph.Nodes) :
          graph.Nodes[i].ID = graph.Nodes[j].ID => i = j
    /\ \A i, j \in 1..Len(graph.Edges) :
          graph.Edges[i] = graph.Edges[j] => i = j

\* a file imported the same external path twice, and the repair pass has
\* removed a node
C1_Witness ==
    /\ Final
    /\ RepairRemoved
    /\ \E i \in 1..Len(tree) :
          /\ Len(tree[i].imports) = 2
          /\ tree[i].imports[1] = tree[i].imports[2]
          /\ tree[i].imports[1] \in usedModules

(***************************************************************************)
(* C2: in the final graph every edge's source and target are ids of nodes  *)
(* of the final node list.                                                 *)
(***************************************************************************)
C2_EndpointsExist ==
    Final =>
        \A i \in 1..Len(graph.Edges) :
            /\ graph.Edges[i].Source \in NodeIDs(graph)
            /\ graph.Edges[i].Target \in NodeIDs(graph)

(***************************************************************************)
(* C3: whatever the order in which the declared modules are enumerated,    *)
(* the module an import about to be scanned resolves to is a declared      *)
(* module that is a textual prefix of the import path, and no declared     *)
(* prefix of the path is longer (none is a prefix when it resolves to no   *)
(* module); the edge from an import node to its module says the same.      *)
(***************************************************************************)
C3_LongestPrefix ==
    /\ \A p \in NextImports :
          \A r \in RootModules(availableModules, p) :
              /\ r # EmptyString => LongestPrefixIn(availableModules, r, p)
              /\ r = EmptyString => \A k \in availableModules : ~HasPrefix(p, k)
    /\ \A i \in 1..Len(graph.Edges) :
          LET e == graph.Edges[i]
          IN (HasPrefix(e.Source, ImportPrefix) /\ e.Target \in Declared)
                => LongestDeclaredPrefix(e.Target, TrimPrefix(e.Source, ImportPrefix))

\* a.b/x and a.b/x/y are both declared and a.b/x/y/z was resolved
C3_Witness ==
    /\ {ModX, ModXY} \subseteq availableModules
    /\ <<ImportPrefix \o ModXY \o <<"/", "z">>, ModXY>> \in EdgePairs(graph)

(***************************************************************************)
(* C4: for every import path whose first path segment contains no ".",     *)
(* the final graph has no node for the path and no edge referencing one.   *)
(***************************************************************************)
C4_StdlibExcluded ==
    Final =>
        \A p \in ImportUniverse :
            IsStdlib(p) =>
                \A id \in {p, ImportPrefix \o p} :
                    id \notin NodeIDs(graph) /\ ~Touches(id)

(***************************************************************************)
(* C5: for every non-standard-library import path outside the project's    *)
(* own module of which no declared module is a prefix, the final graph has *)
(* no node and no edge for that import, also when the manifest is missing  *)
(* or malformed.                                                           *)
(***************************************************************************)
C5_UnresolvedDropped ==
    Final =>
        \A p \in ImportUniverse :
            (/\ ~IsStdlib(p)
             /\ ~IsInternal(p)
             /\ \A m \in Declared : ~HasPrefix(p, m))
            => \A id \in {p, ImportPrefix \o p} :
                   id \notin NodeIDs(graph) /\ ~Touches(id)

(***************************************************************************)
(* C6: for every indirect declared module some import resolved to, its     *)
(* node is in the final node list if and only if the final graph has an    *)
(* edge into it from a direct, used module whose first path segment is a   *)
(* substring of the indirect module's path; the node is absent exactly     *)
(* when no such direct, used module exists.                                *)
(***************************************************************************)
PlausibleParents(m) ==
    { d \in DeclaredDirect : ResolvedTo(d) /\ Contains(m, FirstSegment(d)) }

C6_IndirectKeptIffParent ==
    Final =>
        \A m \in DeclaredIndirect :
            ResolvedTo(m) =>
                /\ m \in NodeIDs(graph)
                      <=> \E d \in PlausibleParents(m) : <<d, m>> \in EdgePairs(graph)
                /\ PlausibleParents(m) = {} <=> m \notin NodeIDs(graph)

\* an indirect module was imported beside a direct one that is no plausible
\* parent, and its node is gone
C6_Witness ==
    /\ Final
    /\ \E m \in DeclaredIndirect :
          /\ ResolvedTo(m)
          /\ PlausibleParents(m) = {}
          /\ \E d \in DeclaredDirect : ResolvedTo(d)
          /\ m \notin NodeIDs(graph)

(***************************************************************************)
(* C7: for every declared direct module some scanned import resolved to,   *)
(* the final graph has a node with the module path as id and an edge from  *)
(* the main module id to it, and both endpoints are nodes of the graph.    *)
(***************************************************************************)
C7_DirectConnected ==
    Final =>
        \A m \in DeclaredDirect :
            ResolvedTo(m) =>
                /\ m \in NodeIDs(graph)
                /\ <<manifest.module, m>> \in EdgePairs(graph)
                /\ manifest.module \in NodeIDs(graph)

\* two direct modules were imported
C7_Witness ==
    /\ Final
    /\ \E m, k \in DeclaredDirect : m # k /\ ResolvedTo(m) /\ ResolvedTo(k)

C9_SameGraphTwice ==
    (Final /\ prev # <<>>) =>
        /\ prev[1].nodes = NodeIDs(graph)
        /\ prev[1].edges = EdgePairs(graph)

(***************************************************************************)
(* C10: analyzeProject returns an error only when the project root itself  *)
(* cannot be traversed; an error below the root yields no error and the    *)
(* scan goes on over the remaining entries.                                *)
(***************************************************************************)
C10_ErrorOnlyForRoot ==
    Final =>
        /\ err # "nil" => tree = <<RootError>>
        /\ tree # <<RootError>> => walkIdx = Len(tree) + 1

(***************************************************************************)
(* C11: the analysed path is the first positional argument if there is     *)
(* one, else the value of the last -path flag if one was given, else ".";  *)
(* an empty result is replaced by "."; with no arguments the path is "."   *)
(* and the port "8080".                                                    *)
(***************************************************************************)
PathResolved == mainPc \in {"port", "stat", "serving", "exit1"}

IsFlagArg(s) == Len(s) >= 2 /\ s[1] = "-"

\* the command line is k pairs "-path v" or "-port v" followed by nothing or
\* by positional arguments
FlagPairsThenArgs(k) ==
    /\ 2 * k <= Len(osArgs)
    /\ \A j \in 1..k : osArgs[2 * j - 1] \in {PathFlag, PortFlag}
    /\ 2 * k = Len(osArgs) \/ ~IsFlagArg(osArgs[2 * k + 1])

OrDefault(path) == IF path = EmptyString THEN DefaultPath ELSE path

C11_TargetPrecedence ==
    PathResolved =>
        /\ osArgs = <<>> => targetPath = DefaultPath /\ port = DefaultPort
        /\ \A k \in 0..Len(osArgs) :
              FlagPairsThenArgs(k) =>
                  LET given == { j \in 1..k : osArgs[2 * j - 1] = PathFlag }
                      last == CHOOSE j \in given : \A i \in given : i <= j
                  IN targetPath =
                        OrDefault(IF 2 * k < Len(osArgs) THEN osArgs[2 * k + 1]
                                  ELSE IF given # {} THEN osArgs[2 * last]
                                  ELSE DefaultPath)
        /\ targetPath # EmptyString

\* "-path q /p": the positional argument has replaced the flag's value
C11_Witness ==
    /\ mainPc = "serving"
    /\ osArgs = <<PathFlag, RelPath, AbsPath>>
    /\ targetPath = AbsPath

(***************************************************************************)
(* C12: for every external import p scanned in package k and owned by the  *)
(* declared module m: if p = m the graph has the edge k -> m and no node   *)
(* "import:"+p; otherwise it has a node "import:"+p of kind external and   *)
(* the edges k -> "import:"+p and "import:"+p -> m.  Every external        *)
(* "import:" node has exactly one outgoing edge, to the longest declared   *)
(* prefix of its path.                                                     *)
(***************************************************************************)
\* the pairs <<package id, import path>> the walk callback has processed
ScannedFacts ==
    UNION { { <<PackageID(Walked(i).path), tree[i].imports[j]>> :
                j \in 1..Len(tree[i].imports) } :
            i \in { k \in 1..(walkIdx - 1) :
                      k <= Len(tree) /\ tree[k].parses /\ ~Skipped(Walked(k)) } }

C12_ExternalImportShape ==
    LET edges == EdgePairs(graph)
        ids == NodeIDs(graph)
    IN /\ \A f \in ScannedFacts :
             LET k == f[1]
                 p == f[2]
                 importID == ImportPrefix \o p
             IN (~IsStdlib(p) /\ ~IsInternal(p)) =>
                   \A m \in Declared :
                       LongestDeclaredPrefix(m, p) =>
                           IF p = m
                           THEN <<k, m>> \in edges /\ importID \notin ids
                           ELSE /\ \E i \in 1..Len(graph.Nodes) :
                                     /\ graph.Nodes[i].ID = importID
                                     /\ graph.Nodes[i].Type = "external"
                                /\ <<k, importID>> \in edges
                                /\ <<importID, m>> \in edges
       /\ \A i \in 1..Len(graph.Nodes) :
             LET n == graph.Nodes[i]
                 out == { e \in edges : e[1] = n.ID }
             IN (n.Type = "external" /\ HasPrefix(n.ID, ImportPrefix)) =>
                   \E m \in Declared :
                       /\ LongestDeclaredPrefix(m, TrimPrefix(n.ID, ImportPrefix))
                       /\ out = { <<n.ID, m>> }

\* one file imported a module root and a sub-package of another module
C12_Witness ==
    /\ Final
    /\ <<PkgPrefix \o RootName, ModX>> \in EdgePairs(graph)
    /\ ImportPrefix \o ModX \notin NodeIDs(graph)
    /\ <<ImportPrefix \o ModXY \o <<"/", "z">>, ModXY>> \in EdgePairs(graph)

(***************************************************************************)
(* C13: for every project root path, the source files directly in the root *)
(* map to the package id "pkg:root", the files of a subdirectory to        *)
(* "pkg:" + the directory path relative to the root, and every directory   *)
(* with a parsed source file has exactly one node of kind package, with    *)
(* depth 0.                                                                *)
(***************************************************************************)
\* the directories, relative to the root, of the files parsed so far
ParsedDirs ==
    { Dir(tree[i].path) :
        i \in { k \in 1..(walkIdx - 1) :
                  k <= Len(tree) /\ ~Skipped(Walked(k)) /\ tree[k].parses } }

ReservedID(dir) == PkgPrefix \o (IF dir = Dot THEN RootName ELSE dir)

PackageNodes == { i \in 1..Len(graph.Nodes) : graph.Nodes[i].Type = "package" }

C13_PackageIDs ==
    /\ \A dir \in ParsedDirs :
          Cardinality({ i \in PackageNodes : graph.Nodes[i].ID = ReservedID(dir) }) = 1
    /\ Cardinality(PackageNodes) = Cardinality(ParsedDirs)
    /\ \A i \in PackageNodes : graph.Nodes[i].Depth = 0

====
